---- MODULE Spec2Model ----
(***************************************************************************)
(* Model of the moments-app email ingestion path:                          *)
(*   lambdas/gmail_ingestor.py   build_ddb_item_from_gmail_dict, _put_item,*)
(*                               put_item_into_dynamodb, handler, _response*)
(*   lambdas/gmail_processor.py  get_secret, handler                       *)
(*   moments_app/moments_app_stack.py   the table's key schema, the queue's*)
(*                               redrive policy, the SQS event source      *)
(* The queue and the table are AWS services; they are modelled by the      *)
(* behaviour their declarations in the stack configure.                    *)
(***************************************************************************)
EXTENDS Integers, Sequences, FiniteSets, TLC

(***************************************************************************)
(* Bounds of the model.                                                    *)
(***************************************************************************)
\* how many distinct Gmail messages are sent to the queue in one behaviour
MaxMessages == 2
\* how many EmailRecords are built in one behaviour (readings of the clock)
MaxClock == 2
\* how many times the queue delivers an already acknowledged message again
MaxDuplicates == 1
\* how many seconds of the queue's time the timed specification follows
MaxTime == 180

(***************************************************************************)
(* Program constants.                                                      *)
(***************************************************************************)
\* sqs.DeadLetterQueue(max_receive_count=3, ...)
max_receive_count == 3

\* _lambda.Function(timeout=Duration.seconds(60), ...)
timeout == 60

\* SqsEventSource(max_batching_window=Duration.seconds(30), ...)
max_batching_window == 30

\* mutant: the queue is given the function's timeout as its visibility timeout
visibility_timeout_of_function == timeout

\* sqs.Queue(visibility_timeout=Duration.seconds(90), ...)
visibility_timeout == 90

\* concurrent instances of the function
Procs == {"p1", "p2"}

\* Python's None and the sentinels of the model
None == [none |-> TRUE]
NoMsg == [id |-> "-"]
NoRec == [norec |-> TRUE]

(***************************************************************************)
(* Gmail messages (GmailMessage): id, labelIds, payload.headers.  A header *)
(* value is the sequence of its whitespace/punctuation separated tokens.   *)
(***************************************************************************)
Hdr(n, v) == [name |-> n, value |-> v]

Msg(i, l, h) == [id |-> i, labelIds |-> l, payload |-> [headers |-> h]]

JaneFrom == <<"Jane", "Doe", "<", "jane@example.com", ">">>
BobFrom == <<"bob@example.com">>
DateA == <<"Mon", "02", "Jan", "2023", "15", "04", "05", "+0000">>
DateB == <<"Tue", "14", "Feb", "2023", "23", "59", "58", "-0500">>

\* capitalised header names, display name in From
M1 == Msg("m1", <<"INBOX", "UNREAD">>,
          <<Hdr("From", JaneFrom), Hdr("Subject", <<"Hello">>), Hdr("Date", DateA)>>)
\* same sender and subject as M1, another message id and date
M2 == Msg("m2", <<"INBOX">>,
          <<Hdr("Date", DateB), Hdr("FROM", JaneFrom), Hdr("subject", <<"Hello">>)>>)
\* no subject header
M3 == Msg("m3", <<>>,
          <<Hdr("From", BobFrom), Hdr("X-Tag", <<"t">>), Hdr("Date", DateA)>>)
\* lower-case names, bare address
M4 == Msg("m4", <<"INBOX">>,
          <<Hdr("from", BobFrom), Hdr("subject", <<"Invoice">>), Hdr("date", DateB)>>)
\* no date header
M5 == Msg("m5", <<>>,
          <<Hdr("From", JaneFrom), Hdr("Subject", <<"Invoice">>)>>)
\* no from header and no subject header
M6 == Msg("m6", <<>>, <<Hdr("DATE", DateA)>>)

\* a From value with an empty route address
M7 == Msg("m7", <<"SPAM">>,
          <<Hdr("From", <<"Jane", "Doe", "<", ">">>), Hdr("Subject", <<"Hello">>),
            Hdr("Date", DateA)>>)
\* a date that does not parse (day 32, no day of the week)
M8 == Msg("m8", <<>>,
          <<Hdr("From", BobFrom), Hdr("Subject", <<"Hello">>),
            Hdr("Date", <<"32", "Jan", "2023", "15", "04", "05", "+0000">>)>>)

\* two subject headers, and a From value that is a group
M9 == Msg("m9", <<"INBOX">>,
          <<Hdr("Subject", <<"First">>), Hdr("From", <<"team", ":", ";">>),
            Hdr("SUBJECT", <<"Second">>), Hdr("Date", DateB)>>)

\* a date that is no date at all
M10 == Msg("m10", <<"INBOX">>,
           <<Hdr("From", JaneFrom), Hdr("Subject", <<"Invoice">>),
             Hdr("Date", <<"yesterday">>)>>)

AllMessages == {M1, M2, M3, M4, M5, M6, M7, M8, M9, M10}

\* the messages of the concurrent specification: two of one key, one that does not
\* decode, one of another key, one whose key the table rejects
CoreMessages == {M1, M2, M3, M4, M7}

MessageIds == {m.id : m \in AllMessages}

(***************************************************************************)
(* str.lower() on the header names that occur.                             *)
(***************************************************************************)
Lower(s) ==
    CASE s \in {"From", "FROM", "from"} -> "from"
      [] s \in {"Subject", "SUBJECT", "subject"} -> "subject"
      [] s \in {"Date", "DATE", "date"} -> "date"
      [] s \in {"X-Tag", "x-tag"} -> "x-tag"
      [] OTHER -> s

\* dict.get(key, default)
Get(d, k, default) == IF k \in DOMAIN d THEN d[k] ELSE default

\* {header["name"].lower(): header["value"] for header in headers}:
\* a dict comprehension, a later header replaces an earlier one of the same key
HeaderMap(headers) ==
    LET keys == {Lower(headers[i].name) : i \in 1..Len(headers)}
        last(k) == CHOOSE i \in 1..Len(headers) :
                      /\ Lower(headers[i].name) = k
                      /\ \A j \in 1..Len(headers) : Lower(headers[j].name) = k => j <= i
    IN [k \in keys |-> headers[last(k)].value]

(***************************************************************************)
(* email.utils.parseaddr: the address part of a From value.                *)
(***************************************************************************)
\* tokens: words, "<", ">", ":" and ";".  A route address "<" addr ">" gives addr
\* (the closing ">" may be missing), "<" ">" gives "", a group "name : ;" gives "",
\* and a value with neither gives its first word.
parseaddr(v) ==
    IF Len(v) = 0 THEN ""
    ELSE IF \E i \in 1..Len(v) : v[i] = "<"
    THEN LET i == CHOOSE k \in 1..Len(v) : v[k] = "<" /\ \A j \in 1..(k - 1) : v[j] # "<"
         IN IF i + 1 <= Len(v) /\ v[i + 1] \notin {"<", ">", ":", ";"}
            THEN v[i + 1]
            ELSE ""
    ELSE IF \E i \in 1..Len(v) : v[i] \in {":", ";", ">"} THEN ""
    ELSE v[1]

(***************************************************************************)
(* email.utils.parsedate_to_datetime and strftime.                         *)
(***************************************************************************)
MonthNum ==
    [Jan |-> "01", Feb |-> "02", Mar |-> "03", Apr |-> "04", May |-> "05", Jun |-> "06",
     Jul |-> "07", Aug |-> "08", Sep |-> "09", Oct |-> "10", Nov |-> "11", Dec |-> "12"]

WeekDays == {"Mon", "Tue", "Wed", "Thu", "Fri", "Sat", "Sun"}

\* the days every month has
DayTokens ==
    {"01", "02", "03", "04", "05", "06", "07", "08", "09", "10", "11", "12", "13", "14",
     "15", "16", "17", "18", "19", "20", "21", "22", "23", "24", "25", "26", "27", "28"}

HourTokens ==
    {"00", "01", "02", "03", "04", "05", "06", "07", "08", "09", "10", "11", "12", "13",
     "14", "15", "16", "17", "18", "19", "20", "21", "22", "23"}

\* the value without its optional leading day of the week
DateFields(v) == IF Len(v) > 0 /\ v[1] \in WeekDays THEN Tail(v) ELSE v

\* mutant: the shape of the value is checked, the range of its fields is not
DateParses_unranged(v) ==
    LET f == DateFields(v) IN
    /\ Len(f) \in {6, 7}
    /\ f[2] \in DOMAIN MonthNum

\* the value parses as "[Day,] DD Mon YYYY HH MM SS [zone]" with fields in range;
\* otherwise parsedate_to_datetime raises ValueError
DateParses(v) ==
    LET f == DateFields(v) IN
    /\ Len(f) \in {6, 7}
    /\ f[1] \in DayTokens
    /\ f[2] \in DOMAIN MonthNum
    /\ f[4] \in HourTokens

\* the text of the ValueError of parsedate_to_datetime
DateErrorText == "Invalid date value or format"

\* parse_date.strftime("%d/%m/%Y"), the fields of the header's own zone
strftime_dmy(v) == LET f == DateFields(v) IN <<f[1], MonthNum[f[2]], f[3]>>

\* mutant: the time of day normalised to UTC before it is formatted
strftime_hms_utc(v) ==
    LET f == DateFields(v)
        hours == <<"00", "01", "02", "03", "04", "05", "06", "07", "08", "09", "10", "11",
                   "12", "13", "14", "15", "16", "17", "18", "19", "20", "21", "22", "23">>
        shift == IF Len(f) = 7 /\ f[7] = "-0500" THEN 5 ELSE 0
        h == CHOOSE k \in 1..24 : hours[k] = f[4]
    IN <<hours[((h - 1 + shift) % 24) + 1], f[5], f[6]>>

\* parse_date.strftime("%H:%M:%S")
strftime_hms(v) == LET f == DateFields(v) IN <<f[4], f[5], f[6]>>

(***************************************************************************)
(* build_ddb_item_from_gmail_dict: the EmailRecord of a message built at   *)
(* time now, or the exception the build raises.                            *)
(***************************************************************************)
Raise(t, a) == [ok |-> FALSE, exc |-> [type |-> t, arg |-> a]]

\* mutant: ingested_at = field(default=...), a default evaluated once at import
EmailRecord_import_time(mid, from_address, subject, date, time, now) ==
    [from_address |-> from_address,
     message_id |-> mid,
     subject |-> subject,
     date |-> date,
     time |-> time,
     labels |-> <<>>,
     ingested_at |-> 0,
     status |-> "NEW",
     action |-> "apply_label"]

EmailRecord(mid, from_address, subject, date, time, now) ==
    [from_address |-> from_address,
     message_id |-> mid,
     subject |-> subject,
     date |-> date,
     time |-> time,
     labels |-> <<>>,
     ingested_at |-> now,
     status |-> "NEW",
     action |-> "apply_label"]

\* mutant: header_map.get(name, "") in place of header_map[name]
build_with_defaults(message, now) ==
    LET header_map == HeaderMap(message.payload.headers)
        date_sent == Get(header_map, "date", <<>>)
    IN IF ~DateParses(date_sent) THEN Raise("ValueError", DateErrorText)
       ELSE [ok |-> TRUE,
             record |-> EmailRecord(message.id,
                                    parseaddr(Get(header_map, "from", <<>>)),
                                    Get(header_map, "subject", <<>>),
                                    strftime_dmy(date_sent),
                                    strftime_hms(date_sent),
                                    now)]

build_ddb_item_from_gmail_dict(message, now) ==
    LET header_map == HeaderMap(message.payload.headers) IN
    IF "from" \notin DOMAIN header_map THEN Raise("KeyError", "from")
    ELSE IF "subject" \notin DOMAIN header_map THEN Raise("KeyError", "subject")
    ELSE IF "date" \notin DOMAIN header_map THEN Raise("KeyError", "date")
    ELSE IF ~DateParses(header_map["date"]) THEN Raise("ValueError", DateErrorText)
    ELSE [ok |-> TRUE,
          record |-> EmailRecord(message.id,
                                 parseaddr(header_map["from"]),
                                 header_map["subject"],
                                 strftime_dmy(header_map["date"]),
                                 strftime_hms(header_map["date"]),
                                 now)]

\* str(e) of the exception
ExcText(exc) == IF exc.type = "KeyError" THEN "'" \o exc.arg \o "'" ELSE exc.arg

(***************************************************************************)
(* The DynamoDB table: partition key from_address, sort key subject.  An   *)
(* item is stored whole under its key; put_item replaces the item of the   *)
(* same key.                                                               *)
(***************************************************************************)
\* mutant: the sort key the comment in EmailRecord names, message_id
Key_by_message_id(item) == <<item.from_address, item.message_id>>

Key(item) == <<item.from_address, item.subject>>

\* mutant: an insert that keeps the item already stored under the key
put_item_insert(table, item) == table \cup {item}

\* mutant: a write that stores the key attributes only
put_item_keys_only(table, item) ==
    {x \in table : Key(x) # Key(item)}
        \cup {[from_address |-> item.from_address, subject |-> item.subject]}

\* mutant: an update of the stored item that keeps its first ingested_at
put_item_update(table, item) ==
    LET old == {x \in table : Key(x) = Key(item)} IN
    {x \in table : Key(x) # Key(item)}
        \cup (IF old = {} THEN {item}
              ELSE {[item EXCEPT !.ingested_at = x.ingested_at] : x \in old})

put_item(table, item) == {x \in table : Key(x) # Key(item)} \cup {item}

\* error responses of the service (botocore ClientError.response)
Throttled ==
    [Error |-> [Code |-> "ProvisionedThroughputExceededException", Message |-> "throttled"],
     ResponseMetadata |-> [HTTPStatusCode |-> 400]]

ValidationFailed ==
    [Error |-> [Code |-> "ValidationException", Message |-> "empty key attribute"],
     ResponseMetadata |-> [HTTPStatusCode |-> 400]]

\* a response that carries neither Error nor ResponseMetadata
BareResponse == [RequestId |-> "r"]

\* what one put_item call can end in: "ok", a ClientError with its response, or
\* another exception (botocore's EndpointConnectionError is no ClientError).
\* transient tells whether a retry can succeed.
Ok == [kind |-> "ok"]

ClientError(response, transient) ==
    [kind |-> "ClientError", response |-> response, transient |-> transient]

OtherError(text, transient) ==
    [kind |-> "Exception", text |-> text, transient |-> transient]

\* a key attribute may not be the empty string: the service rejects the item
KeyValid(item) == item.from_address # "" /\ item.subject # <<>>

StoreOutcomes(item) ==
    IF ~KeyValid(item) THEN {ClientError(ValidationFailed, FALSE)}
    ELSE {Ok,
          ClientError(Throttled, TRUE),
          ClientError(BareResponse, TRUE),
          OtherError("Could not connect to the endpoint URL", TRUE)}

(***************************************************************************)
(* _response: the dict returned for a ClientError.                         *)
(***************************************************************************)
EmptyDict == [x \in {} |-> None]

\* mutant: a ClientError reported like any other exception
_response_generic(e) == [status_code |-> 500, message |-> "Unknown"]

\* mutant: the defaults of gmail_processor.get_secret
_response_other_defaults(e) ==
    LET error_info == Get(e.response, "Error", EmptyDict)
        meta_data == Get(e.response, "ResponseMetadata", EmptyDict)
    IN [code |-> Get(error_info, "Code", "UnknownError"),
        message |-> Get(error_info, "Message", "Unknown"),
        response_metadata |->
            [http_status_code |-> Get(meta_data, "HTTPStatusCode", "UnknownStatusCode")]]

_response(e) ==
    LET error_info == Get(e.response, "Error", EmptyDict)
        meta_data == Get(e.response, "ResponseMetadata", EmptyDict)
    IN [code |-> Get(error_info, "Code", "Unknown"),
        message |-> Get(error_info, "Message", "Unknown"),
        response_metadata |-> [http_status_code |-> Get(meta_data, "HTTPStatusCode", 500)]]

\* the values put_item_into_dynamodb returns
ConfigMissingResult ==
    [status_code |-> 200, message |-> "Configuration environment variable missing"]

SuccessResult ==
    [status_code |-> 200, message |-> "Item successfully written to DynamoDB"]

ExceptionResult(text) == [status_code |-> 500, message |-> text]

(***************************************************************************)
(* handler: calls put_item_into_dynamodb and returns None.  The event      *)
(* source mapping (report_batch_item_failures=True) reads the failed       *)
(* message identifiers off the function's response; None reports none.     *)
(***************************************************************************)
\* mutant: return put_item_into_dynamodb(event=event, context=context)
handler_return_result(result) == result

handler_return(result) == None

\* a response that is None or has no batchItemFailures reports no failure
BatchItemFailures(response) ==
    IF response = None \/ "batchItemFailures" \notin DOMAIN response THEN {}
    ELSE response.batchItemFailures

(***************************************************************************)
(* gmail_processor.get_secret: the lookup of the secret named by           *)
(* SECRET_NAME and the response built from how the lookup ends.            *)
(***************************************************************************)
\* constants.GMAIL_RETRIEVER_SECRET_NAME, the value the stack gives SECRET_NAME
GMAIL_RETRIEVER_SECRET_NAME == "moments_gmail_ingestor_oauth_client_id"

\* Python values of a field that holds an int in one branch and a str in another
PyInt(n) == [int |-> n]

PyStr(t) == [str |-> t]

\* json.dumps(d): the dict as a JSON text
json_dumps(d) == [json |-> d]

\* error responses of Secrets Manager (botocore ClientError.response)
SecretNotFound ==
    [Error |-> [Code |-> "ResourceNotFoundException", Message |-> "secret not found"],
     ResponseMetadata |-> [HTTPStatusCode |-> 400]]

\* an Error without a Message and without ResponseMetadata
CodeOnlyResponse == [Error |-> [Code |-> "AccessDeniedException"]]

\* the secret values the lookup can return
SecretValues == {"client-id-a", "client-id-b"}

SecretValue(v) == [kind |-> "ok", value |-> v]

\* what parameters.get_secret(name) can end in: the secret value, a ClientError,
\* or another exception; a lookup without a name never returns a value
SecretOutcomes(name) ==
    IF name = "" THEN {OtherError("Invalid type for parameter SecretId", FALSE)}
    ELSE {SecretValue(v) : v \in SecretValues}
            \cup {ClientError(SecretNotFound, FALSE),
                  ClientError(CodeOnlyResponse, FALSE),
                  ClientError(BareResponse, TRUE),
                  ClientError(EmptyDict, TRUE),
                  OtherError("Could not connect to the endpoint URL", TRUE)}

\* mutant: the ClientError branch answers like the catch-all branch
get_secret_catch_all(name, o) ==
    IF o.kind = "ok"
    THEN [statusCode |-> PyInt(200),
          body |-> json_dumps([message |-> "Successfully retrieved secret.",
                               secret |-> name,
                               secret_value |-> o.value])]
    ELSE [statusCode |-> PyInt(500),
          body |-> json_dumps([message |-> IF o.kind = "Exception" THEN o.text
                                           ELSE "An error occurred"])]

\* the response get_secret returns when the lookup for name ends in o
get_secret(name, o) ==
    CASE o.kind = "ok" ->
            [statusCode |-> PyInt(200),
             body |-> json_dumps([message |-> "Successfully retrieved secret.",
                                  secret |-> name,
                                  secret_value |-> o.value])]
      [] o.kind = "ClientError" ->
            LET response == o.response
                error_info == Get(response, "Error", EmptyDict)
                error_code == Get(error_info, "Code", "UnknownError")
                error_message == IF "Message" \in DOMAIN error_info
                                 THEN PyStr(error_info["Message"]) ELSE None
                meta_data == Get(response, "ResponseMetadata", EmptyDict)
                status_code == IF "HTTPStatusCode" \in DOMAIN meta_data
                               THEN PyInt(meta_data["HTTPStatusCode"])
                               ELSE PyStr("UnknownStatusCode")
            IN [statusCode |-> status_code,
                body |-> json_dumps([error |-> error_code, message |-> error_message])]
      [] OTHER ->
            [statusCode |-> PyInt(500), body |-> json_dumps([message |-> o.text])]

(***************************************************************************)
(* State.                                                                  *)
(***************************************************************************)
VARIABLES
    moments_table,   \* os.environ.get("MOMENTS_TABLE"): "" when not configured
    table,           \* the items of the DynamoDB table
    q,               \* per message: "absent", "visible", "inflight", "deleted", "dlq"
    rc,              \* per message: the queue's receive count
    dups,            \* how many duplicate deliveries the queue has made
    clock,           \* datetime.now(timezone.utc), advanced by each reading
    pc,              \* per instance: "idle", "start", "built", "returning", "done"
    event,           \* per instance: the message it was invoked with
    ddb_item,        \* per instance: the item built by _put_item
    result,          \* per instance: what put_item_into_dynamodb returned
    outcome,         \* per instance: how its put_item call ended
    puts,            \* per instance: put_item calls made in this invocation
    reported,        \* the message identifiers some response reported as failed
    writes,          \* history: the items put_item stored, in the order of the calls
    secret_name,     \* os.environ.get("SECRET_NAME"): "" when not configured
    spc,             \* per instance of gmail_processor: "idle", "start", "returning", "done"
    secret_outcome,  \* per instance: how its parameters.get_secret call ended
    secret_result,   \* per instance: what get_secret returned
    time_now,        \* the time of the queue and of the function, in seconds
    tq,              \* per message: "visible", "inflight", "deleted", "dlq"
    trc,             \* per message: the queue's receive count
    received_at,     \* per message: when the event source received it last
    invisible_until, \* per message: when its visibility timeout ends
    handed,          \* per message: its current delivery has been given to an instance
    run              \* per instance: the delivery it was invoked with and when

ingestor_vars == <<moments_table, table, q, rc, dups, clock, pc, event, ddb_item, result,
                   outcome, puts, reported, writes>>

secret_vars == <<secret_name, spc, secret_outcome, secret_result>>

timing_vars == <<time_now, tq, trc, received_at, invisible_until, handed, run>>

vars == <<ingestor_vars, secret_vars, timing_vars>>

\* the messages of the timed specification
TimedIds == {M1.id, M2.id}

\* an instance that is not running
NotRunning == [msg |-> "-"]

NoOutcome == [kind |-> "none"]

InitState ==
    /\ moments_table \in {"", "moments-table"}
    /\ table = {}
    /\ q = [m \in MessageIds |-> "absent"]
    /\ rc = [m \in MessageIds |-> 0]
    /\ dups = 0
    /\ clock = 0
    /\ pc = [p \in Procs |-> "idle"]
    /\ event = [p \in Procs |-> NoMsg]
    /\ ddb_item = [p \in Procs |-> NoRec]
    /\ result = [p \in Procs |-> None]
    /\ outcome = [p \in Procs |-> NoOutcome]
    /\ puts = [p \in Procs |-> 0]
    /\ reported = {}
    /\ writes = <<>>
    /\ spc = [p \in Procs |-> "idle"]
    /\ secret_outcome = [p \in Procs |-> NoOutcome]
    /\ secret_result = [p \in Procs |-> None]
    /\ time_now = 0
    /\ tq = [m \in TimedIds |-> "visible"]
    /\ trc = [m \in TimedIds |-> 0]
    /\ received_at = [m \in TimedIds |-> 0]
    /\ invisible_until = [m \in TimedIds |-> 0]
    /\ handed = [m \in TimedIds |-> FALSE]
    /\ run = [p \in Procs |-> NotRunning]

\* the functions as the stack deploys them: SECRET_NAME is set
Init == InitState /\ secret_name = GMAIL_RETRIEVER_SECRET_NAME

\* gmail_processor with and without SECRET_NAME in its environment
InitSecret == InitState /\ secret_name \in {"", GMAIL_RETRIEVER_SECRET_NAME}

(***************************************************************************)
(* The queue (sqs.Queue with a redrive policy) and its producer.           *)
(***************************************************************************)
\* the retriever sends a Gmail message to the queue
Send(m) ==
    /\ q[m.id] = "absent"
    /\ Cardinality({i \in MessageIds : q[i] # "absent"}) < MaxMessages
    /\ q' = [q EXCEPT ![m.id] = "visible"]
    /\ UNCHANGED <<moments_table, table, rc, dups, clock, pc, event, ddb_item, result,
                   outcome, puts, reported, writes>>
    /\ UNCHANGED <<secret_vars, timing_vars>>

\* the retriever sends a Gmail message to an empty queue
SendOnly(m) ==
    /\ q[m.id] = "absent"
    /\ \A i \in MessageIds : q[i] \in {"absent", "deleted"}
    /\ Cardinality({i \in MessageIds : q[i] # "absent"}) < MaxMessages
    /\ q' = [q EXCEPT ![m.id] = "visible"]
    /\ UNCHANGED <<moments_table, table, rc, dups, clock, pc, event, ddb_item, result,
                   outcome, puts, reported, writes>>
    /\ UNCHANGED <<secret_vars, timing_vars>>

\* the event source mapping receives a visible message and invokes the function
Receive(p, m) ==
    /\ pc[p] \in {"idle", "done"}
    /\ q[m.id] = "visible"
    /\ rc[m.id] < max_receive_count
    /\ q' = [q EXCEPT ![m.id] = "inflight"]
    /\ rc' = [rc EXCEPT ![m.id] = @ + 1]
    /\ pc' = [pc EXCEPT ![p] = "start"]
    /\ event' = [event EXCEPT ![p] = m]
    /\ ddb_item' = [ddb_item EXCEPT ![p] = NoRec]
    /\ result' = [result EXCEPT ![p] = None]
    /\ outcome' = [outcome EXCEPT ![p] = NoOutcome]
    /\ puts' = [puts EXCEPT ![p] = 0]
    /\ UNCHANGED <<moments_table, table, dups, clock, reported, writes>>
    /\ UNCHANGED <<secret_vars, timing_vars>>

\* a message received max_receive_count times moves to the dead-letter queue
Redrive(m) ==
    /\ q[m.id] = "visible"
    /\ rc[m.id] >= max_receive_count
    /\ q' = [q EXCEPT ![m.id] = "dlq"]
    /\ UNCHANGED <<moments_table, table, rc, dups, clock, pc, event, ddb_item, result,
                   outcome, puts, reported, writes>>
    /\ UNCHANGED <<secret_vars, timing_vars>>

\* at-least-once delivery: an acknowledged message is delivered once more
Duplicate(m) ==
    /\ q[m.id] = "deleted"
    /\ dups < MaxDuplicates
    /\ dups' = dups + 1
    /\ q' = [q EXCEPT ![m.id] = "visible"]
    /\ UNCHANGED <<moments_table, table, rc, clock, pc, event, ddb_item, result, outcome,
                   puts, reported, writes>>
    /\ UNCHANGED <<secret_vars, timing_vars>>

(***************************************************************************)
(* put_item_into_dynamodb, step by step.                                   *)
(***************************************************************************)
\* if not moments_table: return the configuration result
ConfigMissing(p) ==
    /\ pc[p] = "start"
    /\ moments_table = ""
    /\ result' = [result EXCEPT ![p] = ConfigMissingResult]
    /\ pc' = [pc EXCEPT ![p] = "returning"]
    /\ UNCHANGED <<moments_table, table, q, rc, dups, clock, event, ddb_item, outcome,
                   puts, reported, writes>>
    /\ UNCHANGED <<secret_vars, timing_vars>>

\* _put_item, first half: asdict(build_ddb_item_from_gmail_dict(message));
\* an exception of the build is caught by "except Exception"
BuildItem(p) ==
    /\ pc[p] = "start"
    /\ moments_table # ""
    /\ LET b == build_ddb_item_from_gmail_dict(event[p], clock) IN
       IF b.ok
       THEN /\ clock < MaxClock
            /\ ddb_item' = [ddb_item EXCEPT ![p] = b.record]
            /\ clock' = clock + 1
            /\ pc' = [pc EXCEPT ![p] = "built"]
            /\ UNCHANGED result
       ELSE /\ result' = [result EXCEPT ![p] = ExceptionResult(ExcText(b.exc))]
            /\ pc' = [pc EXCEPT ![p] = "returning"]
            /\ UNCHANGED <<ddb_item, clock>>
    /\ UNCHANGED <<moments_table, table, q, rc, dups, event, outcome, puts, reported,
                   writes>>
    /\ UNCHANGED <<secret_vars, timing_vars>>

\* mutant: the item is stored before the call fails
PutItem_stores_then_fails(p) ==
    /\ pc[p] = "built"
    /\ \E o \in StoreOutcomes(ddb_item[p]) :
          /\ outcome' = [outcome EXCEPT ![p] = o]
          /\ table' = put_item(table, ddb_item[p])
          /\ writes' = Append(writes, ddb_item[p])
          /\ result' = [result EXCEPT ![p] =
                           CASE o.kind = "ok" -> SuccessResult
                             [] o.kind = "ClientError" -> _response(o)
                             [] OTHER -> ExceptionResult(o.text)]
    /\ puts' = [puts EXCEPT ![p] = @ + 1]
    /\ pc' = [pc EXCEPT ![p] = "returning"]
    /\ UNCHANGED <<moments_table, q, rc, dups, clock, event, ddb_item, reported>>
    /\ UNCHANGED <<secret_vars, timing_vars>>

\* _put_item, second half: table.put_item(Item=ddb_item), and the except clauses
PutItem(p) ==
    /\ pc[p] = "built"
    /\ \E o \in StoreOutcomes(ddb_item[p]) :
          /\ outcome' = [outcome EXCEPT ![p] = o]
          /\ table' = IF o.kind = "ok" THEN put_item(table, ddb_item[p]) ELSE table
          /\ writes' = IF o.kind = "ok" THEN Append(writes, ddb_item[p]) ELSE writes
          /\ result' = [result EXCEPT ![p] =
                           CASE o.kind = "ok" -> SuccessResult
                             [] o.kind = "ClientError" -> _response(o)
                             [] OTHER -> ExceptionResult(o.text)]
    /\ puts' = [puts EXCEPT ![p] = @ + 1]
    /\ pc' = [pc EXCEPT ![p] = "returning"]
    /\ UNCHANGED <<moments_table, q, rc, dups, clock, event, ddb_item, reported>>
    /\ UNCHANGED <<secret_vars, timing_vars>>

\* handler returns; the event source mapping deletes the messages the response
\* does not report as failed and leaves the reported ones to be received again
Return(p) ==
    /\ pc[p] = "returning"
    /\ LET failed == BatchItemFailures(handler_return(result[p])) IN
       /\ reported' = reported \cup failed
       /\ q' = [q EXCEPT ![event[p].id] =
                   IF event[p].id \in failed THEN "visible" ELSE "deleted"]
    /\ pc' = [pc EXCEPT ![p] = "done"]
    /\ UNCHANGED <<moments_table, table, rc, dups, clock, event, ddb_item, result,
                   outcome, puts, writes>>
    /\ UNCHANGED <<secret_vars, timing_vars>>

\* the function runs out of its 60 s before it returns: the invocation fails and
\* the message becomes visible again when its visibility timeout ends
Timeout(p) ==
    /\ pc[p] \in {"built", "returning"}
    /\ pc' = [pc EXCEPT ![p] = "idle"]
    /\ q' = [q EXCEPT ![event[p].id] = "visible"]
    /\ event' = [event EXCEPT ![p] = NoMsg]
    /\ ddb_item' = [ddb_item EXCEPT ![p] = NoRec]
    /\ result' = [result EXCEPT ![p] = None]
    /\ outcome' = [outcome EXCEPT ![p] = NoOutcome]
    /\ puts' = [puts EXCEPT ![p] = 0]
    /\ UNCHANGED <<moments_table, table, rc, dups, clock, reported, writes>>
    /\ UNCHANGED <<secret_vars, timing_vars>>

\* a status transition made by a downstream consumer of the table
ExternalStatusTransition(item) ==
    /\ item \in table
    /\ item.status = "NEW"
    /\ table' = (table \ {item}) \cup {[item EXCEPT !.status = "PROCESSED"]}
    /\ UNCHANGED <<moments_table, q, rc, dups, clock, pc, event, ddb_item, result,
                   outcome, puts, reported, writes>>
    /\ UNCHANGED <<secret_vars, timing_vars>>

(***************************************************************************)
(* gmail_processor: handler calls get_secret and returns None.             *)
(***************************************************************************)
\* the function is invoked
Invoke(p) ==
    /\ spc[p] \in {"idle", "done"}
    /\ spc' = [spc EXCEPT ![p] = "start"]
    /\ secret_outcome' = [secret_outcome EXCEPT ![p] = NoOutcome]
    /\ secret_result' = [secret_result EXCEPT ![p] = None]
    /\ UNCHANGED <<secret_name, ingestor_vars, timing_vars>>

\* get_secret: without SECRET_NAME an error is logged and the lookup is made all
\* the same; the try/except turns the end of the lookup into the response
GetSecret(p) ==
    /\ spc[p] = "start"
    /\ \E o \in SecretOutcomes(secret_name) :
          /\ secret_outcome' = [secret_outcome EXCEPT ![p] = o]
          /\ secret_result' = [secret_result EXCEPT ![p] = get_secret(secret_name, o)]
    /\ spc' = [spc EXCEPT ![p] = "returning"]
    /\ UNCHANGED <<secret_name, ingestor_vars, timing_vars>>

\* handler returns
SecretReturn(p) ==
    /\ spc[p] = "returning"
    /\ spc' = [spc EXCEPT ![p] = "done"]
    /\ UNCHANGED <<secret_name, secret_outcome, secret_result, ingestor_vars, timing_vars>>

\* concurrent instances of the function on the queue, no invocation timing out
Next ==
    \/ \E m \in CoreMessages : Send(m)
    \/ \E p \in Procs, m \in CoreMessages : Receive(p, m)
    \/ \E m \in CoreMessages : Duplicate(m)
    \/ \E p \in Procs : ConfigMissing(p)
    \/ \E p \in Procs : BuildItem(p)
    \/ \E p \in Procs : PutItem(p)
    \/ \E p \in Procs : Return(p)
    \/ \E item \in table : ExternalStatusTransition(item)

Spec == Init /\ [][Next]_vars

\* one instance, invocations that time out, and the redrive to the dead-letter queue
NextQueue ==
    \/ \E m \in CoreMessages : Send(m)
    \/ \E m \in CoreMessages : Receive("p1", m)
    \/ \E m \in CoreMessages : Redrive(m)
    \/ ConfigMissing("p1")
    \/ BuildItem("p1")
    \/ PutItem("p1")
    \/ Return("p1")
    \/ Timeout("p1")

QueueSpec == Init /\ [][NextQueue]_vars

\* one instance and one message at a time, over every message
NextDecode ==
    \/ \E m \in AllMessages : SendOnly(m)
    \/ \E m \in AllMessages : Receive("p1", m)
    \/ ConfigMissing("p1")
    \/ BuildItem("p1")
    \/ PutItem("p1")
    \/ Return("p1")

DecodeSpec == Init /\ [][NextDecode]_vars

\* concurrent instances of gmail_processor
NextSecret ==
    \/ \E p \in Procs : Invoke(p)
    \/ \E p \in Procs : GetSecret(p)
    \/ \E p \in Procs : SecretReturn(p)

SecretSpec == InitSecret /\ [][NextSecret]_vars

(***************************************************************************)
(* The timing the stack configures: the queue hides a received message for *)
(* visibility_timeout, the event source may hold it for up to              *)
(* max_batching_window before it invokes the function, and the function is *)
(* stopped timeout after its start.                                        *)
(***************************************************************************)
\* instance p is running at time_now: a run lasts from its start up to, and not
\* including, the moment the function's timeout stops it
Running(p) == run[p] # NotRunning /\ time_now < run[p].started + timeout

\* the event source receives message m from the queue
Poll(m) ==
    /\ tq[m] = "visible"
    /\ trc[m] < max_receive_count
    /\ tq' = [tq EXCEPT ![m] = "inflight"]
    /\ trc' = [trc EXCEPT ![m] = @ + 1]
    /\ received_at' = [received_at EXCEPT ![m] = time_now]
    /\ invisible_until' = [invisible_until EXCEPT ![m] = time_now + visibility_timeout]
    /\ handed' = [handed EXCEPT ![m] = FALSE]
    /\ UNCHANGED <<time_now, run, ingestor_vars, secret_vars>>

\* the event source invokes instance p with the message, within its batching window
Start(p, m) ==
    /\ tq[m] = "inflight"
    /\ ~handed[m]
    /\ run[p] = NotRunning
    /\ time_now <= received_at[m] + max_batching_window
    /\ run' = [run EXCEPT ![p] = [msg |-> m, delivery |-> trc[m], started |-> time_now]]
    /\ handed' = [handed EXCEPT ![m] = TRUE]
    /\ UNCHANGED <<time_now, tq, trc, received_at, invisible_until, ingestor_vars,
                   secret_vars>>

\* the handler returns before the timeout: the event source deletes the message
\* with the receipt of the delivery, which is void once the message was received again
Finish(p) ==
    /\ Running(p)
    /\ tq' = [tq EXCEPT ![run[p].msg] =
                 IF tq[run[p].msg] = "inflight" /\ trc[run[p].msg] = run[p].delivery
                 THEN "deleted" ELSE @]
    /\ run' = [run EXCEPT ![p] = NotRunning]
    /\ UNCHANGED <<time_now, trc, received_at, invisible_until, handed, ingestor_vars,
                   secret_vars>>

\* the function's timeout stops the invocation; the message stays in flight
Kill(p) ==
    /\ run[p] # NotRunning
    /\ time_now >= run[p].started + timeout
    /\ run' = [run EXCEPT ![p] = NotRunning]
    /\ UNCHANGED <<time_now, tq, trc, received_at, invisible_until, handed, ingestor_vars,
                   secret_vars>>

\* the visibility timeout of a message ends: it is visible again, or moves to the
\* dead-letter queue when it has been received max_receive_count times
Expire(m) ==
    /\ tq[m] = "inflight"
    /\ time_now >= invisible_until[m]
    /\ tq' = [tq EXCEPT ![m] = IF trc[m] >= max_receive_count THEN "dlq" ELSE "visible"]
    /\ UNCHANGED <<time_now, trc, received_at, invisible_until, handed, run, ingestor_vars,
                   secret_vars>>

\* ten seconds pass; no invocation waits longer than the batching window and no
\* run goes on past the function's timeout
Tick ==
    /\ time_now + 10 <= MaxTime
    /\ \A m \in TimedIds :
          (tq[m] = "inflight" /\ ~handed[m])
          => time_now + 10 <= received_at[m] + max_batching_window
    /\ \A p \in Procs : run[p] # NotRunning => time_now + 10 <= run[p].started + timeout
    /\ time_now' = time_now + 10
    /\ UNCHANGED <<tq, trc, received_at, invisible_until, handed, run, ingestor_vars,
                   secret_vars>>

NextTimed ==
    \/ \E m \in TimedIds : Poll(m)
    \/ \E p \in Procs, m \in TimedIds : Start(p, m)
    \/ \E p \in Procs : Finish(p)
    \/ \E p \in Procs : Kill(p)
    \/ \E m \in TimedIds : Expire(m)
    \/ Tick

TimedSpec == Init /\ [][NextTimed]_vars

(***************************************************************************)
(* Definitions shared by the properties below.                             *)
(***************************************************************************)
\* two items of one storage slot: the same sender and the same subject
SameSlot(a, b) == a.from_address = b.from_address /\ a.subject = b.subject

\* the index of the most recent write to the slot of writes[j] is j
LastOfSlot(j) == \A k \in (j + 1)..Len(writes) : ~SameSlot(writes[k], writes[j])

\* the item as it was written: a status set by a downstream consumer put back
AsWritten(x) == [x EXCEPT !.status = "NEW"]

\* the required headers a message lacks, names compared without case
RequiredHeaders == <<"from", "subject", "date">>

Lacks(m, h) == \A i \in 1..Len(m.payload.headers) : Lower(m.payload.headers[i].name) # h

Range(f) == {f[i] : i \in DOMAIN f}

\* the invocation of instance p has gone through put_item_into_dynamodb
Finished(p) == pc[p] \in {"returning", "done"}

(***************************************************************************)
(* C1.  Writing the record of the same message twice (a redelivery) leaves *)
(* exactly one item in the slot (from_address, subject), and that item is  *)
(* the most recent write.                                                  *)
(***************************************************************************)
C1_RewriteIsIdempotent ==
    \A i, j \in 1..Len(writes) :
        (i < j /\ writes[i].message_id = writes[j].message_id /\ LastOfSlot(j))
        => /\ Cardinality({x \in table : SameSlot(x, writes[j])}) = 1
           /\ \A x \in table : SameSlot(x, writes[j]) => AsWritten(x) = writes[j]

\* a message was written, delivered again and written again
C1_Witness ==
    /\ Len(writes) = 2
    /\ writes[1].message_id = writes[2].message_id
    /\ writes[1].ingested_at < writes[2].ingested_at
    /\ writes[2] \in table

(***************************************************************************)
(* C2.  For a batch of N messages of which exactly message K fails to      *)
(* decode, the N-1 others being written, the consumer reports exactly {K}  *)
(* as failed.                                                              *)
(***************************************************************************)
C2_BatchReportsExactlyTheFailed ==
    LET batch == {m \in AllMessages : q[m.id] # "absent"}
        bad == {m \in batch : ~build_ddb_item_from_gmail_dict(m, 0).ok}
    IN (/\ moments_table # ""
        /\ dups = 0
        /\ Cardinality(batch) >= 2
        /\ \A m \in batch : q[m.id] = "deleted" \/ m.id \in reported
        /\ Cardinality(bad) = 1
        /\ Len(writes) = Cardinality(batch) - 1)
       => reported = {m.id : m \in bad}

(***************************************************************************)
(* C3.  When the store write of a message fails with a transient store     *)
(* error, the message is reported as failed and no record of that write is *)
(* left in the store.                                                      *)
(***************************************************************************)
C3_TransientErrorReported ==
    \A p \in Procs :
        (pc[p] = "done" /\ outcome[p].kind \in {"ClientError", "Exception"}
            /\ outcome[p].transient)
        => /\ event[p].id \in reported
           /\ ddb_item[p] \notin table

(***************************************************************************)
(* C4.  Decoding a message that lacks a from, subject or date header       *)
(* (names compared without case) fails with an error naming the first      *)
(* missing header, and no record is built or written for the message.      *)
(***************************************************************************)
C4_MissingHeaderFails ==
    /\ \A p \in Procs : \A n \in 1..3 :
        (/\ Finished(p)
         /\ moments_table # ""
         /\ Lacks(event[p], RequiredHeaders[n])
         /\ \A k \in 1..(n - 1) : ~Lacks(event[p], RequiredHeaders[k]))
        => /\ result[p] = [status_code |-> 500,
                           message |-> "'" \o RequiredHeaders[n] \o "'"]
           /\ ddb_item[p] = NoRec
           /\ puts[p] = 0
           /\ \A x \in table : x.message_id # event[p].id
    /\ \A p \in Procs :
        (/\ Finished(p)
         /\ moments_table # ""
         /\ \A n \in 1..3 : ~Lacks(event[p], RequiredHeaders[n]))
        => result[p].message \notin {"'from'", "'subject'", "'date'"}

\* a message with capitalised header names and no Subject has been through
C4_Witness ==
    /\ pc["p1"] = "done"
    /\ moments_table # ""
    /\ event["p1"] = M3
    /\ result["p1"].message = "'subject'"

(***************************************************************************)
(* C5.  A message whose processing fails on every delivery is reported as  *)
(* failed on each delivery, so the queue never takes it as processed: it   *)
(* stays in the queue until its receive count passes max_receive_count and *)
(* it moves to the dead-letter queue.                                      *)
(***************************************************************************)
C5_FailingMessageNeverAcknowledged ==
    \A m \in CoreMessages :
        (moments_table # "" /\ ~build_ddb_item_from_gmail_dict(m, 0).ok)
        => q[m.id] # "deleted"

(***************************************************************************)
(* C6.  A record is written once and never updated by the ingest path:     *)
(* when a message is ingested again, the put_item call leaves the record   *)
(* the table already holds for that message unchanged, status included.    *)
(***************************************************************************)
C6_IngestNeverUpdates ==
    [][\A p \in Procs :
          (pc[p] = "built" /\ pc'[p] = "returning")
          => \A x \in table : x.message_id = event[p].id => x \in table']_vars

C8_ConfigFailureDistinctFromSuccess ==
    \A p \in Procs :
        (Finished(p) /\ moments_table = "")
        => /\ \/ result[p].status_code # SuccessResult.status_code
              \/ handler_return(result[p]) # handler_return(SuccessResult)
           /\ puts[p] = 0

(***************************************************************************)
(* C9.  As claimed: the result of a failed write tells a transient store   *)
(* error from a permanent one, each class of result standing for one of    *)
(* the two.                                                                *)
(***************************************************************************)
\* the class of a failure result: the except clause that produced it
ResultClass(r) == IF "status_code" \in DOMAIN r THEN "Exception" ELSE "ClientError"

BuiltRecords ==
    {build_ddb_item_from_gmail_dict(m, t).record :
        <<m, t>> \in {mt \in AllMessages \X (0..MaxClock) :
                        build_ddb_item_from_gmail_dict(mt[1], mt[2]).ok}}

C10_OneWholeWritePerCall ==
    /\ \A p \in Procs :
          /\ puts[p] <= 1
          /\ (Finished(p) /\ result[p] = SuccessResult)
             => puts[p] = 1 /\ outcome[p].kind = "ok"
          /\ (Finished(p) /\ outcome[p].kind = "ok") => ddb_item[p] \in Range(writes)
    /\ \A x \in table : AsWritten(x) \in BuiltRecords

\* an invocation has written its item and the item is stored
C10_Witness ==
    \E p \in Procs :
        /\ pc[p] = "done"
        /\ result[p] = SuccessResult
        /\ puts[p] = 1
        /\ ddb_item[p] \in table

(***************************************************************************)
(* C11.  The required headers are looked up without regard to the case of  *)
(* their names, and when several headers of a message have the same        *)
(* lower-cased required name, the record is built from the first of them   *)
(* in list order.                                                          *)
(***************************************************************************)
\* the value of the first header of m whose lower-cased name is h
FirstValue(m, h) ==
    LET hs == m.payload.headers
        i == CHOOSE k \in 1..Len(hs) :
                /\ Lower(hs[k].name) = h
                /\ \A j \in 1..(k - 1) : Lower(hs[j].name) # h
    IN hs[i].value

C11_FirstMatchingHeaderWins ==
    \A p \in Procs :
        ddb_item[p] # NoRec
        => /\ ddb_item[p].from_address = parseaddr(FirstValue(event[p], "from"))
           /\ ddb_item[p].subject = FirstValue(event[p], "subject")
           /\ ddb_item[p].date = strftime_dmy(FirstValue(event[p], "date"))
           /\ ddb_item[p].time = strftime_hms(FirstValue(event[p], "date"))

(***************************************************************************)
(* C12.  For a message with one from, one subject and one date header that *)
(* parse, the built record has the bare e-mail address of the From value   *)
(* as from_address (the display name is dropped), the raw Subject value as *)
(* subject, and as date (DD/MM/YYYY) and time (HH:MM:SS) the calendar and  *)
(* clock fields written in the Date header, in the header's own timezone   *)
(* offset and not normalised to UTC.                                       *)
(***************************************************************************)
\* the headers of m whose lower-cased name is h
Named(m, h) ==
    {i \in 1..Len(m.payload.headers) : Lower(m.payload.headers[i].name) = h}

\* the value of the only header of m named h
OnlyValue(m, h) == m.payload.headers[CHOOSE i \in Named(m, h) : TRUE].value

\* the e-mail addresses that occur in From values
AddressTokens == {"jane@example.com", "bob@example.com"}

C12_RecordFieldsFromHeaders ==
    \A p \in Procs :
        (/\ ddb_item[p] # NoRec
         /\ \A n \in 1..3 : Cardinality(Named(event[p], RequiredHeaders[n])) = 1
         /\ \E a \in AddressTokens : a \in Range(OnlyValue(event[p], "from")))
        => LET from_raw == OnlyValue(event[p], "from")
               d == OnlyValue(event[p], "date")
               i == CHOOSE k \in 1..Len(d) : d[k] \in DOMAIN MonthNum
           IN /\ ddb_item[p].from_address \in AddressTokens \cap Range(from_raw)
              /\ ddb_item[p].subject = OnlyValue(event[p], "subject")
              /\ ddb_item[p].date = <<d[i - 1], MonthNum[d[i]], d[i + 1]>>
              /\ ddb_item[p].time = <<d[i + 2], d[i + 3], d[i + 4]>>

\* a message with a display name and a date of offset -0500, late in the evening of
\* 14 February (15 February in UTC), has been built and stored
C12_Witness ==
    /\ pc["p1"] = "done"
    /\ event["p1"] = M2
    /\ ddb_item["p1"] # NoRec
    /\ ddb_item["p1"].from_address = "jane@example.com"
    /\ ddb_item["p1"].date = <<"14", "02", "2023">>
    /\ ddb_item["p1"].time = <<"23", "59", "58">>
    /\ ddb_item["p1"] \in table

(***************************************************************************)
(* C13.  The labels of every built record are the label tags (labelIds) of *)
(* the message it was built from, in the same order, and empty when the    *)
(* message has none.                                                       *)
(***************************************************************************)
C13_LabelsCopiedFromMessage ==
    /\ \A p \in Procs : ddb_item[p] # NoRec => ddb_item[p].labels = event[p].labelIds
    /\ \A x \in table :
          \E m \in AllMessages : m.id = x.message_id /\ x.labels = m.labelIds

(***************************************************************************)
(* C14.  Every record is built with status "NEW", action "apply_label",    *)
(* the message_id of its source message and an ingested_at read from the   *)
(* clock at the time of the build, and the build itself leaves the table   *)
(* as it was.                                                              *)
(***************************************************************************)
C14_BuildSetsDefaultsAndWritesNothing ==
    [][\A p \in Procs :
          (pc[p] = "start" /\ pc'[p] = "built")
          => /\ ddb_item'[p].status = "NEW"
             /\ ddb_item'[p].action = "apply_label"
             /\ ddb_item'[p].message_id = event[p].id
             /\ ddb_item'[p].ingested_at = clock
             /\ table' = table
             /\ writes' = writes]_vars

\* a record has been built, after another one, while the table holds an item
C14_Witness ==
    \E p \in Procs :
        /\ pc[p] = "built"
        /\ ddb_item[p].message_id = "m4"
        /\ ddb_item[p].ingested_at = 1
        /\ table # {}

(***************************************************************************)
(* C15.  A message whose date header is present but does not parse fails   *)
(* to decode on every delivery with the date error, an outcome that is     *)
(* neither the missing-header failure nor any failure of the store, and    *)
(* no record is built or written for the message.                          *)
(***************************************************************************)
\* the date values that are not dates
BadDates == {<<"32", "Jan", "2023", "15", "04", "05", "+0000">>, <<"yesterday">>}

\* what put_item_into_dynamodb returns for the failures of the store
StoreFailureResults ==
    {IF o.kind = "ClientError" THEN _response(o) ELSE ExceptionResult(o.text) :
        o \in UNION {StoreOutcomes(r) : r \in BuiltRecords} \ {Ok}}

C15_InvalidDateFails ==
    \A p \in Procs :
        (/\ Finished(p)
         /\ moments_table # ""
         /\ \A n \in 1..3 : Cardinality(Named(event[p], RequiredHeaders[n])) = 1
         /\ OnlyValue(event[p], "date") \in BadDates)
        => /\ result[p] = [status_code |-> 500, message |-> DateErrorText]
           /\ result[p].message \notin {"'from'", "'subject'", "'date'"}
           /\ result[p] \notin StoreFailureResults
           /\ result[p] \notin {SuccessResult, ConfigMissingResult}
           /\ ddb_item[p] = NoRec
           /\ puts[p] = 0
           /\ \A x \in table : x.message_id # event[p].id

\* a message dated 32 January has been through, after a message that was stored
C15_Witness ==
    /\ pc["p1"] = "done"
    /\ event["p1"] = M8
    /\ result["p1"] = [status_code |-> 500, message |-> DateErrorText]
    /\ table # {}

(***************************************************************************)
(* C16.  A message whose From value holds no address decodes without error *)
(* into a record with an empty from_address, and the record goes through   *)
(* the write like the record of any other message: the store does not      *)
(* reject it and the writer does not return a rejection for it.            *)
(***************************************************************************)
C16_UnparsedFromIsWrittenLikeAnyOther ==
    \A p \in Procs :
        (/\ Finished(p)
         /\ ddb_item[p] # NoRec
         /\ \A a \in AddressTokens : a \notin Range(OnlyValue(event[p], "from")))
        => /\ ddb_item[p].from_address = ""
           /\ puts[p] = 1
           /\ ~(outcome[p].kind = "ClientError" /\ ~outcome[p].transient)
           /\ result[p] # _response(ClientError(ValidationFailed, FALSE))

(***************************************************************************)
(* C17.  When two instances running at the same time both write to one key *)
(* (from_address, subject), the key holds one item afterwards, and it is   *)
(* the whole record of the instance whose put_item came last: every field  *)
(* of it comes from that one writer.                                       *)
(***************************************************************************)
C17_ConcurrentWritesLastWins ==
    \A p, r \in Procs :
        (/\ p # r
         /\ Finished(p) /\ outcome[p].kind = "ok"
         /\ Finished(r) /\ outcome[r].kind = "ok"
         /\ SameSlot(ddb_item[p], ddb_item[r]))
        => LET slot == {x \in table : SameSlot(x, ddb_item[p])}
               j == CHOOSE k \in 1..Len(writes) :
                       SameSlot(writes[k], ddb_item[p]) /\ LastOfSlot(k)
           IN /\ Cardinality(slot) = 1
              /\ writes[j] \in {ddb_item[p], ddb_item[r]}
              /\ \A x \in slot : AsWritten(x) = writes[j]

\* the two invocations overlapped: the instance that built its record first wrote
\* it last, over the record of the other
C17_Witness ==
    \E p, r \in Procs :
        /\ p # r
        /\ Finished(p) /\ outcome[p].kind = "ok"
        /\ Finished(r) /\ outcome[r].kind = "ok"
        /\ SameSlot(ddb_item[p], ddb_item[r])
        /\ ddb_item[p].message_id # ddb_item[r].message_id
        /\ ddb_item[p].ingested_at < ddb_item[r].ingested_at
        /\ Len(writes) = 2
        /\ writes[1] = ddb_item[r]
        /\ writes[2] = ddb_item[p]
        /\ ddb_item[p] \in table

(***************************************************************************)
(* C18.  ingested_at is monotonic per write: whenever a write replaces the *)
(* item stored under a key, the new item's ingested_at is not earlier than *)
(* that of the item it replaces, whatever the interleaving of concurrent   *)
(* invocations and redeliveries.                                           *)
(***************************************************************************)
C18_IngestedAtMonotonicPerWrite ==
    [][\A x \in table : \A y \in table' :
          SameSlot(x, y) => x.ingested_at <= y.ingested_at]_vars

(***************************************************************************)
(* C19.  put_item_into_dynamodb turns every outcome into a returned value: *)
(* a successful write gives status_code 200 with the success message; a    *)
(* ClientError of the store gives the error's code, message and HTTP       *)
(* status, with "Unknown", "Unknown" and 500 for the ones the error lacks; *)
(* any other exception, of the build or of the store, gives status_code    *)
(* 500 with the text of the exception.                                     *)
(***************************************************************************)
\* str(e) of the exceptions build_ddb_item_from_gmail_dict raises
BuildErrorTexts == {"'from'", "'subject'", "'date'", DateErrorText}

C19_EveryOutcomeIsReturned ==
    \A p \in Procs :
        (Finished(p) /\ moments_table # "")
        => /\ result[p] # None
           /\ outcome[p].kind = "ok"
              => result[p] = [status_code |-> 200,
                              message |-> "Item successfully written to DynamoDB"]
           /\ outcome[p].kind = "ClientError"
              => LET r == outcome[p].response
                     has_error == "Error" \in DOMAIN r
                     has_meta == "ResponseMetadata" \in DOMAIN r
                 IN /\ DOMAIN result[p] = {"code", "message", "response_metadata"}
                    /\ result[p].code =
                          IF has_error /\ "Code" \in DOMAIN r.Error
                          THEN r.Error.Code ELSE "Unknown"
                    /\ result[p].message =
                          IF has_error /\ "Message" \in DOMAIN r.Error
                          THEN r.Error.Message ELSE "Unknown"
                    /\ result[p].response_metadata.http_status_code =
                          IF has_meta /\ "HTTPStatusCode" \in DOMAIN r.ResponseMetadata
                          THEN r.ResponseMetadata.HTTPStatusCode ELSE 500
           /\ outcome[p].kind = "Exception"
              => result[p] = [status_code |-> 500, message |-> outcome[p].text]
           /\ outcome[p] = NoOutcome
              => /\ result[p].status_code = 500
                 /\ result[p].message \in BuildErrorTexts
                 /\ puts[p] = 0

\* a ClientError whose response has neither Error nor ResponseMetadata has been
\* returned with the three defaults
C19_Witness ==
    \E p \in Procs :
        /\ pc[p] = "done"
        /\ outcome[p].kind = "ClientError"
        /\ outcome[p].response = BareResponse
        /\ result[p] = [code |-> "Unknown", message |-> "Unknown",
                        response_metadata |-> [http_status_code |-> 500]]

(***************************************************************************)
(* C20.  get_secret returns a response however the lookup ends: statusCode *)
(* 200 with the secret value when the lookup succeeds, the HTTP status and *)
(* error code of the provider's ClientError (the defaults where the error  *)
(* carries none), statusCode 500 for any other exception.  Without         *)
(* SECRET_NAME the lookup is still made, and the response is never the 200 *)
(* success response.                                                       *)
(***************************************************************************)
C20_GetSecretAlwaysResponds ==
    \A p \in Procs :
        spc[p] \in {"returning", "done"}
        => LET o == secret_outcome[p]
               r == secret_result[p]
           IN /\ r # None
              /\ DOMAIN r = {"statusCode", "body"}
              /\ o # NoOutcome
              /\ o.kind = "ok"
                 => /\ r.statusCode = PyInt(200)
                    /\ r.body.json.secret_value = o.value
                    /\ r.body.json.secret = secret_name
              /\ o.kind = "ClientError"
                 => /\ r.statusCode =
                          IF "ResponseMetadata" \in DOMAIN o.response
                          THEN PyInt(o.response.ResponseMetadata.HTTPStatusCode)
                          ELSE PyStr("UnknownStatusCode")
                    /\ r.body.json.error =
                          IF "Error" \in DOMAIN o.response
                          THEN o.response.Error.Code ELSE "UnknownError"
              /\ o.kind = "Exception" => r.statusCode = PyInt(500)
              /\ secret_name = ""
                 => /\ r.statusCode # PyInt(200)
                    /\ "secret_value" \notin DOMAIN r.body.json

\* without SECRET_NAME the lookup was made, failed, and was answered with 500
C20_Witness ==
    \E p \in Procs :
        /\ secret_name = ""
        /\ spc[p] = "done"
        /\ secret_outcome[p].kind = "Exception"
        /\ secret_result[p].statusCode = PyInt(500)

(***************************************************************************)
(* C21.  The ingestor's handler returns None for every event, whatever     *)
(* put_item_into_dynamodb returned (success, configuration error, store    *)
(* error or decode error), so no response ever reports a failed message to *)
(* the queue: the queue deletes the message of every invocation that       *)
(* returns.                                                                *)
(***************************************************************************)
C21_HandlerAlwaysReturnsNone ==
    [][\A p \in Procs :
          (pc[p] = "returning" /\ pc'[p] = "done")
          => /\ result[p] # None
             /\ handler_return(result[p]) = None
             /\ reported' = {}
             /\ q'[event[p].id] = "deleted"]_vars

\* one invocation has returned after a store error and another after a decode
\* error; nothing was reported and both messages are gone from the queue
C21_Witness ==
    /\ pc["p1"] = "done" /\ outcome["p1"].kind \in {"ClientError", "Exception"}
    /\ pc["p2"] = "done" /\ result["p2"] = ExceptionResult("'subject'")
    /\ reported = {}
    /\ q[event["p1"].id] = "deleted"
    /\ q[event["p2"].id] = "deleted"

(***************************************************************************)
(* C22.  An invocation of put_item_into_dynamodb that does not return the  *)
(* success result leaves the table as it was: the items of the table       *)
(* change only in the step of a put_item call that ends in the success     *)
(* result, and a failure of the decode or of the build comes before any    *)
(* put_item call of the invocation.                                        *)
(***************************************************************************)
\* the items of the table, a status set by a downstream consumer put back
Stored(t) == {AsWritten(x) : x \in t}

C22_NoWriteWithoutSuccess ==
    [][/\ Stored(table') # Stored(table)
          => \E p \in Procs :
                /\ pc[p] = "built" /\ pc'[p] = "returning"
                /\ result'[p] = SuccessResult
       /\ \A p \in Procs :
             (/\ pc[p] \in {"start", "built"} /\ pc'[p] = "returning"
              /\ result'[p] # SuccessResult)
             => /\ table' = table
                /\ writes' = writes
                /\ ddb_item'[p] # NoRec => ddb_item'[p] \notin Stored(table')
                /\ result'[p].message \in BuildErrorTexts => puts'[p] = 0]_vars

\* an invocation has returned a store error while the table holds the item of
\* another invocation: its own record is not in the table
C22_Witness ==
    \E p \in Procs :
        /\ pc[p] = "done"
        /\ outcome[p].kind = "ClientError"
        /\ outcome[p].response = Throttled
        /\ table # {}
        /\ ddb_item[p] \notin Stored(table)

(***************************************************************************)
(* C23.  While an invocation that received a message is still running, the *)
(* message is not delivered to another invocation: the message stays in    *)
(* flight under the delivery the invocation holds, and no other running    *)
(* invocation holds the same message.                                      *)
(***************************************************************************)
C23_NoRedeliveryWhileRunning ==
    \A p \in Procs :
        Running(p)
        => /\ tq[run[p].msg] = "inflight"
           /\ trc[run[p].msg] = run[p].delivery
           /\ time_now < invisible_until[run[p].msg]
           /\ \A r \in Procs \ {p} : ~(Running(r) /\ run[r].msg = run[p].msg)

\* an invocation was started at the end of the batching window and stopped by the
\* timeout, and the message is running in another invocation as its second delivery
C23_Witness ==
    \E p \in Procs :
        /\ Running(p)
        /\ run[p].delivery = 2
        /\ run[p].started >= max_batching_window + timeout
        /\ tq[run[p].msg] = "inflight"

====
